---- MODULE Spec2Model ----
(***************************************************************************)
(* A model of rounding_hashing_thinning (src/src/rounding_hashing.cpp):   *)
(* the spatial hash grid, the two distance metrics, the greedy            *)
(* suppression pass and the multi-trial loop that keeps the best mask.    *)
(*                                                                         *)
(* Numbers.  Coordinates are whole degrees and thin_dist and R are whole  *)
(* kilometres (haversine) or whole coordinate units (euclidean).  The     *)
(* grid index round(x / (thin_dist / 111.32)) is computed exactly as the  *)
(* rational round(11132 x / (100 thin_dist)), halves away from zero as    *)
(* std::round does.  Distances are rounded UP to a whole unit, which      *)
(* leaves every comparison `distance <= thin_dist` with a whole thin_dist *)
(* as the code decides it.  The trigonometry of haversineDistance is      *)
(* tabulated on the lattice of multiples of 60 degrees, where             *)
(* sin^2(d/2) and cos(lat) are rational.                                  *)
(*                                                                         *)
(* Memory.  An Rcpp::LogicalVector is a handle on an R vector: its copy   *)
(* constructor and its assignment share the vector, they do not clone it. *)
(* `heap` maps each allocated vector to its contents, and keep_points,    *)
(* trial_keep_points and the elements of all_keep_points are handles.     *)
(*                                                                         *)
(* Point indices are 1-based here (0-based in the code).                  *)
(***************************************************************************)
EXTENDS Integers, Sequences, FiniteSets, TLC

\* ------------------------------------------------------------- bounds
MaxN == 3
MaxTrials == 2

\* 111.32 km per degree, times 100 (line 37)
KmPerDegree100 == 11132

\* ------------------------------------------------------------- inputs
\* <<lon, lat>> in degrees: three points on the parallel of 60 degrees, where a
\* degree of longitude is half as long as on the equator, and one on the equator
Points == {<<0, 60>>, <<60, 60>>, <<120, 60>>, <<0, 0>>}
ThinDists == {6679, 13358}
Radii == {6371}
Metrics == {"haversine", "euclidean"}

VARIABLES
  coordinates,        \* n x 2 matrix: sequence of <<lon, lat>>
  thin_dist, trials, all_trials, distance_metric, R,
  grid,               \* cell key -> sequence of point indices
  i,                  \* loop index of the grid population loop
  heap,               \* allocated logical vectors: handle -> mask
  keep_points,        \* handle of the best mask
  trial_keep_points,  \* handle of the working mask of the trial (0: none yet)
  best_size,
  all_keep_points,    \* list of handles, one per stored trial
  t,                  \* trial counter
  grid_cells,         \* shuffled cell keys of the running trial
  ci, pi,             \* position of the pass: cell in grid_cells, point in the cell
  result,             \* the returned list of masks
  pc

inputs == <<coordinates, thin_dist, trials, all_trials, distance_metric, R>>
vars == <<coordinates, thin_dist, trials, all_trials, distance_metric, R,
          grid, i, heap, keep_points, trial_keep_points, best_size,
          all_keep_points, t, grid_cells, ci, pi, result, pc>>

n == Len(coordinates)
Lon(p) == coordinates[p][1]
Lat(p) == coordinates[p][2]

\* ------------------------------------------------------------- arithmetic
Abs(x) == IF x < 0 THEN -x ELSE x

\* std::round(num / den) for den > 0: nearest integer, halves away from zero
RoundDiv(num, den) ==
  IF num >= 0 THEN (2 * num + den) \div (2 * den)
  ELSE -((2 * (-num) + den) \div (2 * den))

\* static_cast<int>(std::round(x / precision)), precision = thin_dist / 111.32
GridIndex(x) == RoundDiv(KmPerDegree100 * x, 100 * thin_dist)

\* std::to_string(grid_lon) + "_" + std::to_string(grid_lat)
CellKey(grid_lon, grid_lat) == ToString(grid_lon) \o "_" \o ToString(grid_lat)

GridCell(p) == CellKey(GridIndex(Lon(p)), GridIndex(Lat(p)))

\* ------------------------------------------------------------- distances
\* least r with r * r >= s
CeilSqrt(s, hi) == CHOOSE r \in 0..hi : r * r >= s /\ (r = 0 \/ (r - 1) * (r - 1) < s)

\* sqrt(pow(lon2 - lon1, 2) + pow(lat2 - lat1, 2)), rounded up
euclideanDistance(lon1, lat1, lon2, lat2) ==
  CeilSqrt((lon2 - lon1) * (lon2 - lon1) + (lat2 - lat1) * (lat2 - lat1),
           Abs(lon2 - lon1) + Abs(lat2 - lat1))

\* 4 sin^2(d / 2) for d a multiple of 60 degrees
Sin2Half4(d) ==
  LET m == Abs(d) % 360
  IN  CASE m = 0 -> 0
        [] m \in {60, 300} -> 1
        [] m \in {120, 240} -> 3
        [] m = 180 -> 4

\* 2 cos(lat) for lat in {-60, 0, 60}
Cos2(lat) == IF lat = 0 THEN 2 ELSE 1

\* 2 atan2(sqrt(a), sqrt(1 - a)) for a = a16 / 16, in units of 0.1 mrad, rounded up
CentralAngle(a16) ==
  <<0, 5054, 7228, 8957, 10472, 11864, 13182, 14455, 15708,
    16962, 18235, 19552, 20944, 22460, 24189, 26363, 31416>>[a16 + 1]

\* R * c in km, rounded up
haversineDistance(lon1, lat1, lon2, lat2, Rad) ==
  LET a16 == 4 * Sin2Half4(lat2 - lat1)
               + Cos2(lat1) * Cos2(lat2) * Sin2Half4(lon2 - lon1)
      c == CentralAngle(a16)
  IN  (Rad * c + 9999) \div 10000

\* lines 93-98: the metric is haversine or, for any other string, euclidean
Distance(p1, p2) ==
  IF distance_metric = "haversine"
  THEN haversineDistance(Lon(p1), Lat(p1), Lon(p2), Lat(p2), R)
  ELSE euclideanDistance(Lon(p1), Lat(p1), Lon(p2), Lat(p2))

\* line 101
WithinThinDist(p1, p2) == Distance(p1, p2) <= thin_dist

\* ------------------------------------------------------------- the pass
Offsets == -1..1

\* the window with one offset driving both axes (a copy-paste slip in lines 82-83)
NeighborCellsOneOffset(p1) ==
  { CellKey(GridIndex(Lon(p1)) + lat_offset, GridIndex(Lat(p1)) + lat_offset) :
      lat_offset \in Offsets } \cap DOMAIN grid

\* lines 80-86: the cells of the 3 x 3 window around p1 that exist in the grid
NeighborCells(p1) ==
  { CellKey(GridIndex(Lon(p1)) + lon_offset, GridIndex(Lat(p1)) + lat_offset) :
      lon_offset \in Offsets, lat_offset \in Offsets } \cap DOMAIN grid

Elems(s) == { s[k] : k \in 1..Len(s) }

\* the scan storing the comparison instead of clearing on a hit:
\* trial_keep_points[point2_idx] = distance > thin_dist, for every other point
\* of the window
SuppressAssign(mask, point1_idx) ==
  [p \in DOMAIN mask |->
     IF /\ \E c \in NeighborCells(point1_idx) : p \in Elems(grid[c])
        /\ p # point1_idx
     THEN ~WithinThinDist(point1_idx, p)
     ELSE mask[p]]

\* lines 87-105: the mask after point1_idx has scanned its window.  The writes
\* touch only entries other than point1_idx and each test reads only the entry
\* it may write, so the scan order does not matter.
Suppress(mask, point1_idx) ==
  [p \in DOMAIN mask |->
     IF /\ \E c \in NeighborCells(point1_idx) : p \in Elems(grid[c])
        /\ p # point1_idx
        /\ mask[p]
        /\ WithinThinDist(point1_idx, p)
     THEN FALSE
     ELSE mask[p]]

\* line 74 left out: every point scans its window
IsKeptAlways(mask, point1_idx) == TRUE

\* line 74: only a point that is still kept scans its window
IsKept(mask, point1_idx) == mask[point1_idx]

\* Rcpp::sum(trial_keep_points)
Sum(mask) == Cardinality({p \in DOMAIN mask : mask[p]})

\* line 114 with >= for >
IsBetterOrEqual(current_size, best) == current_size >= best

\* line 114
IsBetter(current_size, best) == current_size > best

\* line 59: Rcpp's copy constructor shares the vector
CopyHandle(h) == h

\* std::shuffle: some permutation of the cell keys
Perms(S) ==
  { s \in [1..Cardinality(S) -> S] : \A a, b \in 1..Cardinality(S) : a # b => s[a] # s[b] }

\* ------------------------------------------------------------- behaviour
PointSeqs == UNION { [1..k -> Points] : k \in 0..MaxN }

Init ==
  /\ coordinates \in PointSeqs
  /\ thin_dist \in ThinDists
  /\ trials \in 0..MaxTrials
  /\ all_trials \in BOOLEAN
  /\ distance_metric \in Metrics
  /\ R \in Radii
  /\ grid = <<>>
  /\ i = 1
  /\ heap = <<>>
  /\ keep_points = 0
  /\ trial_keep_points = 0
  /\ best_size = 0
  /\ all_keep_points = <<>>
  /\ t = 0
  /\ grid_cells = <<>>
  /\ ci = 1
  /\ pi = 1
  /\ result = <<>>
  /\ pc = "populate"

\* lines 43-48, one iteration
PopulateGrid ==
  /\ pc = "populate"
  /\ i <= n
  /\ LET grid_cell == GridCell(i)
     IN  grid' = IF grid_cell \in DOMAIN grid
                 THEN [grid EXCEPT ![grid_cell] = Append(@, i)]
                 ELSE (grid_cell :> <<i>>) @@ grid
  /\ i' = i + 1
  /\ UNCHANGED <<inputs, heap, keep_points, trial_keep_points, best_size,
                 all_keep_points, t, grid_cells, ci, pi, result, pc>>

\* lines 50-55
InitKeepPoints ==
  /\ pc = "populate"
  /\ i > n
  /\ heap' = (1 :> [p \in 1..n |-> TRUE])
  /\ keep_points' = 1
  /\ best_size' = 0
  /\ all_keep_points' = <<>>
  /\ t' = 0
  /\ pc' = "trial"
  /\ UNCHANGED <<inputs, grid, i, trial_keep_points, grid_cells, ci, pi, result>>

\* lines 58-66
BeginTrial ==
  /\ pc = "trial"
  /\ t < trials
  /\ trial_keep_points' = CopyHandle(keep_points)
  /\ grid_cells' \in Perms(DOMAIN grid)
  /\ ci' = 1
  /\ pi' = 1
  /\ pc' = "pass"
  /\ UNCHANGED <<inputs, grid, i, heap, keep_points, best_size, all_keep_points,
                 t, result>>

PassDone == ci > Len(grid_cells)
Point1 == grid[grid_cells[ci]][pi]

Advance ==
  IF pi < Len(grid[grid_cells[ci]])
  THEN /\ pi' = pi + 1
       /\ ci' = ci
  ELSE /\ pi' = 1
       /\ ci' = ci + 1

\* line 74: a point that is no longer kept is skipped
SkipPoint ==
  /\ pc = "pass"
  /\ ~PassDone
  /\ ~IsKept(heap[trial_keep_points], Point1)
  /\ Advance
  /\ UNCHANGED <<inputs, grid, i, heap, keep_points, trial_keep_points, best_size,
                 all_keep_points, t, grid_cells, result, pc>>

\* lines 76-108: a kept point suppresses the kept points of its window
ScanNeighbors ==
  /\ pc = "pass"
  /\ ~PassDone
  /\ IsKept(heap[trial_keep_points], Point1)
  /\ heap' = [heap EXCEPT ![trial_keep_points] = Suppress(@, Point1)]
  /\ Advance
  /\ UNCHANGED <<inputs, grid, i, keep_points, trial_keep_points, best_size,
                 all_keep_points, t, grid_cells, result, pc>>

\* lines 120-122
StoreTrial(list, h) == IF all_trials THEN Append(list, h) ELSE list

\* line 123: the locals of the loop body (trial_keep_points, grid_cells and the
\* loop positions) go out of scope and the trial counter advances
EndOfLoopBody ==
  /\ trial_keep_points' = 0
  /\ grid_cells' = <<>>
  /\ ci' = 1
  /\ pi' = 1
  /\ t' = t + 1
  /\ pc' = "trial"

\* lines 113-123, the trial is better
ReplaceBest ==
  /\ pc = "pass"
  /\ PassDone
  /\ LET current_size == Sum(heap[trial_keep_points])
     IN  /\ IsBetter(current_size, best_size)
         /\ keep_points' = trial_keep_points
         /\ best_size' = current_size
  /\ all_keep_points' = StoreTrial(all_keep_points, trial_keep_points)
  /\ EndOfLoopBody
  /\ UNCHANGED <<inputs, grid, i, heap, result>>

\* lines 113-123, the trial is not better
KeepBest ==
  /\ pc = "pass"
  /\ PassDone
  /\ ~IsBetter(Sum(heap[trial_keep_points]), best_size)
  /\ all_keep_points' = StoreTrial(all_keep_points, trial_keep_points)
  /\ EndOfLoopBody
  /\ UNCHANGED <<inputs, grid, i, heap, keep_points, best_size, result>>

\* lines 126-130 without the else branch: the list of trials whatever all_trials is
ReturnAllKeepPoints ==
  [k \in 1..Len(all_keep_points) |-> heap[all_keep_points[k]]]

\* lines 126-130: the list handed to R holds the vectors as they are now
ReturnValue ==
  IF all_trials
  THEN [k \in 1..Len(all_keep_points) |-> heap[all_keep_points[k]]]
  ELSE <<heap[keep_points]>>

Return ==
  /\ pc = "trial"
  /\ t >= trials
  /\ result' = ReturnValue
  /\ pc' = "done"
  /\ UNCHANGED <<inputs, grid, i, heap, keep_points, trial_keep_points, best_size,
                 all_keep_points, t, grid_cells, ci, pi>>

Next ==
  \/ PopulateGrid
  \/ InitKeepPoints
  \/ BeginTrial
  \/ SkipPoint
  \/ ScanNeighbors
  \/ ReplaceBest
  \/ KeepBest
  \/ Return

Spec == Init /\ [][Next]_vars

\* ------------------------------------------------------------- properties
\* the working mask of the running trial
TrialMask == heap[trial_keep_points]

AtEndOfPass == pc = "pass" /\ PassDone

\* cells in each other's 3 x 3 window: indices differ by at most 1 on each axis
Adjacent(p, q) ==
  /\ Abs(GridIndex(Lon(p)) - GridIndex(Lon(q))) <= 1
  /\ Abs(GridIndex(Lat(p)) - GridIndex(Lat(q))) <= 1

\* the points the running pass has already visited
Visited ==
  IF PassDone THEN 1..n
  ELSE UNION { Elems(grid[grid_cells[k]]) : k \in 1..(ci - 1) }
         \cup { grid[grid_cells[ci]][k] : k \in 1..(pi - 1) }

\* C1: for thin_dist > 0 and trials >= 1, no returned mask keeps two distinct
\* points whose distance is <= thin_dist, whatever cells they fall into.
C1_NoClosePairReturned ==
  (pc = "done" /\ thin_dist > 0 /\ trials >= 1) =>
    \A k \in DOMAIN result : \A p, q \in 1..n :
      (p # q /\ result[k][p] /\ result[k][q]) => ~WithinThinDist(p, q)

\* C2: a call with a non-positive thin_dist, trials or R is rejected before any
\* grid cell is built and returns no mask.
C2_InvalidArgumentRejected ==
  (thin_dist <= 0 \/ trials <= 0 \/ R <= 0) =>
    (DOMAIN grid = {} /\ pc # "done")

\* C3: only the first trial replaces the best mask: every later trial ends with
\* as many kept points as best_size, which the first trial set, and the single
\* mask returned has that many kept points.
C3_FirstTrialDominance ==
  /\ [][ReplaceBest => t = 0]_vars
  /\ [][t >= 1 => best_size' = best_size]_vars
  /\ []((AtEndOfPass /\ t >= 1) => Sum(TrialMask) = best_size)
  /\ []((pc = "done" /\ trials >= 1 /\ ~all_trials) => Sum(result[1]) = best_size)

C3_Witness ==
  /\ pc = "done" /\ trials = 2 /\ ~all_trials
  /\ n = 3 /\ Sum(result[1]) = 2 /\ best_size = 2

\* C4: with all_trials the list holds one mask per trial, appended at the end of
\* every trial, and trials masks on return; without it exactly one mask; every
\* returned mask has n entries.
C4_ResultShape ==
  /\ (pc \in {"trial", "pass"} /\ all_trials) => Len(all_keep_points) = t
  /\ pc = "done" =>
       /\ all_trials => Len(result) = trials
       /\ ~all_trials => Len(result) = 1
       /\ \A k \in DOMAIN result : DOMAIN result[k] = 1..n

C4_Witness ==
  /\ pc = "done" /\ all_trials /\ trials = 2 /\ n = 3
  /\ Len(result) = 2 /\ Sum(result[1]) = 1

\* C6: at the end of every trial pass no two distinct kept points in the same
\* cell or in adjacent cells are within thin_dist of each other.
C6_NoCloseNeighborsKept ==
  AtEndOfPass =>
    \A p, q \in 1..n :
      (p # q /\ TrialMask[p] /\ TrialMask[q] /\ Adjacent(p, q)) => ~WithinThinDist(p, q)

C6_Witness ==
  /\ AtEndOfPass
  /\ \E p, q, r \in 1..n :
       /\ p # q /\ TrialMask[p] /\ TrialMask[q] /\ Adjacent(p, q)
       /\ ~TrialMask[r] /\ Adjacent(p, r) /\ WithinThinDist(p, r)

\* C7: no step sets an entry of a mask from not-kept to kept, so the kept points
\* of a pass's output are among those of its starting mask and are no more.
C7_NeverRescued ==
  [][\A h \in DOMAIN heap :
       /\ \A p \in 1..n : heap'[h][p] => heap[h][p]
       /\ Sum(heap'[h]) <= Sum(heap[h])]_vars

C7_Witness ==
  /\ AtEndOfPass /\ n = 3 /\ Sum(TrialMask) = 1

\* C8: the writes of a trial pass leave the best mask (keep_points) unchanged:
\* it changes only in the replacement step at the end of a better trial.
C8_BestUntouchedDuringPass ==
  [][(pc = "pass" /\ ~ReplaceBest) => heap'[keep_points'] = heap[keep_points]]_vars

\* C9: a pass run on the output of a previous pass changes nothing: every trial
\* after the first leaves the mask as the first trial left it, and all the
\* returned masks are equal.
C9_PassIsFixedPoint ==
  /\ [][(pc = "pass" /\ t >= 1) => heap' = heap]_vars
  /\ [](pc = "done" => \A j, k \in DOMAIN result : result[j] = result[k])

C9_Witness ==
  /\ AtEndOfPass /\ t = 1 /\ n = 3 /\ Sum(TrialMask) = 2

\* C10: in the pass started from the all-kept mask a point visited while kept
\* stays kept; at its end every point not kept has a kept point within thin_dist
\* in its own or an adjacent cell, and if n >= 1 the first point visited is kept.
C10_VisitedKeptStaysKept ==
  /\ [][(pc = "pass" /\ t = 0) =>
          \A p \in Visited : TrialMask[p] => heap'[trial_keep_points][p]]_vars
  /\ []((AtEndOfPass /\ t = 0) =>
          /\ \A p \in 1..n : ~TrialMask[p] =>
               \E q \in 1..n : q # p /\ TrialMask[q] /\ Adjacent(p, q) /\ WithinThinDist(q, p)
          /\ n >= 1 => TrialMask[grid[grid_cells[1]][1]])

C10_Witness ==
  /\ AtEndOfPass /\ t = 0 /\ n = 3 /\ Sum(TrialMask) = 2

====
